---- MODULE Spec2Model ----
(***************************************************************************)
(* Model of merv/models/backbones/video/languagebind/video/                *)
(* processing_video.py: uniform frame sampling, the five-stage video       *)
(* transform, and the LanguageBindVideoProcessor call wrapper.             *)
(*                                                                         *)
(* Three specifications share the variables:                               *)
(*   Spec        the processor API (construction, __call__, preprocess,    *)
(*               batch_decode, decode) and the two module-level functions  *)
(*               over a small catalogue of video files;                    *)
(*   SpecFrames  the frame index computation of load_and_transform_video   *)
(*               for every duration and frame count within the bounds;     *)
(*   SpecScale   the transform pipeline, stage by stage, for every input   *)
(*               frame height and width within the bounds.                 *)
(*                                                                         *)
(* Tensors are modelled by their dtype, their shape, the frame indices     *)
(* they hold and their horizontal orientation.  The pointwise stages       *)
(* (x / 255.0, NormalizeVideo) change pixel values only; pixel values are  *)
(* not represented.                                                        *)
(***************************************************************************)
EXTENDS Integers, Sequences, FiniteSets, TLC

VARIABLES processor, args, result, opened, tokenizer_calls, seen

vars == <<processor, args, result, opened, tokenizer_calls, seen>>

(***************************************************************************)
(* Bounds of the model.                                                    *)
(***************************************************************************)
MaxDuration == 31
MaxFrames == 23
MaxSide == 61
MaxBatch == 2
MaxArgs == 2

(***************************************************************************)
(* Program constants.                                                      *)
(***************************************************************************)
TargetSize == 224
DefaultContextLength == 77
DefaultNumFrames == 8

None == "None"

(***************************************************************************)
(* Binary64 arithmetic.  Python floats are IEEE-754 doubles; TLC integers  *)
(* are 32 bits wide, so the rounding of a quotient a/b is tracked by its   *)
(* remainder modulo b instead of by its 53-bit significand.                *)
(***************************************************************************)
RECURSIVE Gcd(_, _)
Gcd(a, b) == IF b = 0 THEN a ELSE Gcd(b, a % b)

RECURSIVE Pow2(_)
Pow2(n) == IF n <= 0 THEN 1 ELSE 2 * Pow2(n - 1)

\* 2^s mod b
RECURSIVE PowMod2(_, _)
PowMod2(s, b) == IF s = 0 THEN 1 % b ELSE (2 * PowMod2(s - 1, b)) % b

\* the binary exponent of a/b (a, b > 0): the q with 2^q <= a/b < 2^(q+1)
RECURSIVE BinaryExponent(_, _)
BinaryExponent(a, b) ==
    IF a >= 2 * b THEN 1 + BinaryExponent(a, 2 * b)
    ELSE IF a < b THEN BinaryExponent(2 * a, b) - 1
    ELSE 0

\* the least c with i <= 2^c (i >= 1)
RECURSIVE CeilLog2(_)
CeilLog2(i) == IF i <= 1 THEN 0 ELSE 1 + CeilLog2((i + 1) \div 2)

\* math.floor(k * (float(a) / b)) in binary64, for integers k, a >= 0, b > 0.
\* With a/b in lowest terms, s the scale that makes the significand of a/b a
\* 53-bit integer and t = (a * 2^s) mod b: the quotient rounds down by
\* t / (b * 2^s) when 2t < b and up otherwise.  The product with k is rounded
\* once more.  The floor differs from the floor of the exact value k*a/b only
\* when k*a/b is an integer I, the quotient was rounded down, and the product
\* lies more than half a unit in the last place below I; the result is then
\* I - 1.
FloatMulFloor(k, a, b) ==
    IF k = 0 \/ a = 0 THEN 0
    ELSE LET g == Gcd(a, b)
             n == a \div g
             d == b \div g
             q == BinaryExponent(n, d)
             s == 52 - q
             t == (n * PowMod2(s, d)) % d
             exact == (k * n) \div d
             qpos == IF q > 0 THEN q ELSE 0
             qneg == IF q < 0 THEN 0 - q ELSE 0
         IN  IF t = 0 \/ (k * n) % d # 0 \/ 2 * t > d THEN exact
             ELSE IF 4 * k * t * Pow2(qpos) > d * Pow2(CeilLog2(exact)) * Pow2(qneg)
                  THEN exact - 1
                  ELSE exact

(***************************************************************************)
(* np.linspace(0, duration - 1, num_frames, dtype=int)                     *)
(*   step = (duration - 1) / (num_frames - 1); y[k] = k * step;            *)
(*   y[-1] = stop (endpoint); floor; cast to int.                          *)
(*   num_frames = 1 yields [0]; a zero step yields zeros.                  *)
(***************************************************************************)
FrameIdListStopAtDuration(duration, num_frames) ==
    [i \in 1..num_frames |->
        IF num_frames = 1 THEN 0
        ELSE IF i = num_frames THEN duration
        ELSE FloatMulFloor(i - 1, duration, num_frames - 1)]

FrameIdListNearest(duration, num_frames) ==
    [i \in 1..num_frames |->
        IF num_frames = 1 THEN 0
        ELSE (2 * (i - 1) * (duration - 1) + (num_frames - 1)) \div (2 * (num_frames - 1))]

FrameIdListNoEndpoint(duration, num_frames) ==
    [i \in 1..num_frames |-> FloatMulFloor(i - 1, duration - 1, num_frames)]

FrameIdList(duration, num_frames) ==
    [i \in 1..num_frames |->
        IF num_frames = 1 THEN 0
        ELSE IF i = num_frames THEN duration - 1
        ELSE FloatMulFloor(i - 1, duration - 1, num_frames - 1)]

(***************************************************************************)
(* Tensors.  raised is None, or the exception a stage raised on the way.   *)
(***************************************************************************)
Tensor(video, frames, dtype, shape) ==
    [video |-> video, frames |-> frames, dtype |-> dtype, shape |-> shape,
     mirrored |-> FALSE, raised |-> None]

\* video_data.permute(3, 0, 1, 2): (T, H, W, C) -> (C, T, H, W)
Permute(x) ==
    [x EXCEPT !.shape = <<x.shape[4], x.shape[1], x.shape[2], x.shape[3]>>]

\* Lambda(lambda x: x / 255.0): a uint8 tensor divided by a float is float32
Div255(x) ==
    IF x.raised # None THEN x ELSE [x EXCEPT !.dtype = "float32"]

\* NormalizeVideo(mean, std): pointwise, shape and dtype kept
NormalizeVideo(x) == x

\* ShortSideScale.forward with the long side scaled to size instead
ShortSideScaleLongSide(x, size) ==
    IF x.raised # None THEN x
    ELSE IF Len(x.shape) # 4 \/ x.dtype # "float32"
         THEN [x EXCEPT !.raised = "AssertionError"]
         ELSE LET h == x.shape[3]
                  w == x.shape[4]
                  new_h == IF w < h THEN size ELSE FloatMulFloor(size, h, w)
                  new_w == IF w < h THEN FloatMulFloor(size, w, h) ELSE size
              IN  [x EXCEPT !.shape = <<x.shape[1], x.shape[2], new_h, new_w>>]

\* ShortSideScale.forward
ShortSideScale(x, size) ==
    IF x.raised # None THEN x
    ELSE IF Len(x.shape) # 4 \/ x.dtype # "float32"
         THEN [x EXCEPT !.raised = "AssertionError"]
         ELSE LET h == x.shape[3]
                  w == x.shape[4]
                  new_h == IF w < h THEN FloatMulFloor(size, h, w) ELSE size
                  new_w == IF w < h THEN size ELSE FloatMulFloor(size, w, h)
              IN  [x EXCEPT !.shape = <<x.shape[1], x.shape[2], new_h, new_w>>]

\* CenterCropVideo(crop_size): refuses a clip smaller than the crop
CenterCropVideo(x, crop_size) ==
    IF x.raised # None THEN x
    ELSE IF x.shape[3] < crop_size \/ x.shape[4] < crop_size
         THEN [x EXCEPT !.raised = "ValueError"]
         ELSE [x EXCEPT !.shape = <<x.shape[1], x.shape[2], crop_size, crop_size>>]

\* a flip along the time axis instead of the width axis
RandomTemporalFlipVideo(x, coin) ==
    IF x.raised # None THEN x
    ELSE IF coin
         THEN [x EXCEPT !.frames = [i \in DOMAIN x.frames |->
                                       x.frames[Len(x.frames) + 1 - i]]]
         ELSE x

\* RandomHorizontalFlipVideo(p=0.5): coin is the outcome of random.random() < p
RandomHorizontalFlipVideo(x, coin) ==
    IF x.raised # None THEN x
    ELSE IF coin THEN [x EXCEPT !.mirrored = ~x.mirrored] ELSE x

\* the Compose list built by get_video_transform
Pipeline ==
    <<"div255", "normalize", "short_side_scale", "center_crop", "random_hflip">>

ApplyStage(stage, x, coin) ==
    CASE stage = "div255" -> Div255(x)
      [] stage = "normalize" -> NormalizeVideo(x)
      [] stage = "short_side_scale" -> ShortSideScale(x, TargetSize)
      [] stage = "center_crop" -> CenterCropVideo(x, TargetSize)
      [] stage = "random_hflip" -> RandomHorizontalFlipVideo(x, coin)

\* Compose.__call__: the stages in list order
RECURSIVE Compose(_, _, _)
Compose(stages, x, coin) ==
    IF stages = <<>> THEN x
    ELSE Compose(Tail(stages), ApplyStage(Head(stages), x, coin), coin)

\* the state the processor variables keep while a pure function is explored
Idle ==
    /\ processor = <<>>
    /\ opened = <<>>
    /\ tokenizer_calls = <<>>
    /\ seen = <<>>

(***************************************************************************)
(* SpecFrames: the frame index list for every duration and frame count.    *)
(***************************************************************************)
InitFrames ==
    /\ Idle
    /\ \E d \in 1..MaxDuration, n \in 1..MaxFrames :
          args = [op |-> "linspace", duration |-> d, num_frames |-> n]
    /\ result = [status |-> "pending", value |-> <<>>]

SampleFrames ==
    /\ args.op = "linspace"
    /\ result.status = "pending"
    /\ result' = [status |-> "ok",
                  value |-> FrameIdList(args.duration, args.num_frames)]
    /\ UNCHANGED <<processor, args, opened, tokenizer_calls, seen>>

NextFrames == SampleFrames

SpecFrames == InitFrames /\ [][NextFrames]_vars

(***************************************************************************)
(* SpecScale: the transform pipeline, one stage per step, applied to a     *)
(* decoded clip of every height and width.                                 *)
(***************************************************************************)
InitScale ==
    /\ Idle
    /\ \E h \in 1..MaxSide, w \in 1..MaxSide :
          /\ args = [op |-> "transform", height |-> h, width |-> w]
          /\ result = [status |-> "running", stage |-> 0,
                       value |-> Permute(Tensor("clip", <<0>>, "uint8", <<1, h, w, 3>>))]

TransformStep ==
    /\ args.op = "transform"
    /\ result.stage < Len(Pipeline)
    /\ \E coin \in BOOLEAN :
          result' = [status |-> IF result.stage + 1 = Len(Pipeline) THEN "ok" ELSE "running",
                     stage |-> result.stage + 1,
                     value |-> ApplyStage(Pipeline[result.stage + 1], result.value, coin)]
    /\ UNCHANGED <<processor, args, opened, tokenizer_calls, seen>>

NextScale == TransformStep

SpecScale == InitScale /\ [][NextScale]_vars

(***************************************************************************)
(* The video files of the processor specification: what the decode backend *)
(* finds at each path.                                                     *)
(***************************************************************************)
VideoFiles == {"a.mp4", "b.mp4", "missing.mp4"}

Decodable(video_path) == video_path # "missing.mp4"

\* len(decord_vr)
Duration(video_path) == IF video_path = "a.mp4" THEN 31 ELSE 3

\* frame height and width of the decoded frames
FrameHeight(video_path) == IF video_path = "a.mp4" THEN 360 ELSE 64

FrameWidth(video_path) == IF video_path = "a.mp4" THEN 640 ELSE 48

Backends == {"decord", "opencv", "pytorchvideo"}

ConfigFrames == {1, DefaultNumFrames}

Texts == {None, "a clip"}

ReturnTensors == {"pt"}

\* argument values are strings here: "ids" is a list of token ids, "True" and
\* "False" the booleans
PosValues == {"ids"}

KwNames == {"skip_special_tokens", "clean_up_tokenization_spaces"}

KwValues == {"False"}

\* the images argument: None, one path, or a list of paths
ImagesNone == [tag |-> "None", items |-> <<>>]

ImagesArgs ==
    {ImagesNone}
    \cup {[tag |-> "item", items |-> <<v>>] : v \in VideoFiles}
    \cup {[tag |-> "list", items |-> q] :
            q \in UNION {[1..n -> VideoFiles] : n \in 0..MaxBatch}}

make_list_of_images(x) ==
    IF x.tag # "list" THEN <<x.items[1]>> ELSE x.items

(***************************************************************************)
(* get_video_transform and load_and_transform_video.  An outcome is the    *)
(* exception raised (None when the call returns), the value returned and   *)
(* the paths handed to VideoReader, in order.                              *)
(***************************************************************************)
get_video_transform_any(video_decode_backend) ==
    [raised |-> None, value |-> Pipeline]

get_video_transform(video_decode_backend) ==
    IF video_decode_backend = "decord"
    THEN [raised |-> None, value |-> Pipeline]
    ELSE [raised |-> "NameError", value |-> <<>>]

load_and_transform_video(video_path, transform, video_decode_backend, num_frames, coin) ==
    IF video_decode_backend = "decord"
    THEN IF ~Decodable(video_path)
         THEN [raised |-> "DECORDError", value |-> None, opened |-> <<video_path>>]
         ELSE LET frame_id_list == FrameIdList(Duration(video_path), num_frames)
                  video_data == Tensor(video_path, frame_id_list, "uint8",
                                       <<num_frames, FrameHeight(video_path),
                                         FrameWidth(video_path), 3>>)
                  video_outputs == Compose(transform, Permute(video_data), coin)
              IN  [raised |-> video_outputs.raised, value |-> video_outputs,
                   opened |-> <<video_path>>]
    ELSE [raised |-> "NameError", value |-> None, opened |-> <<>>]

\* load_and_transform_video for every argument the processor specification
\* passes (a constant: evaluated once)
Loaded ==
    [video_path \in VideoFiles, backend \in Backends, n \in ConfigFrames, coin \in BOOLEAN |->
        load_and_transform_video(video_path, Pipeline, backend, n, coin)]

\* torch.cat in place of torch.stack: joins along the existing first axis
Cat(tensors) ==
    IF Len(tensors) = 0
       \/ \E i \in DOMAIN tensors : Tail(tensors[i].shape) # Tail(tensors[1].shape)
    THEN [raised |-> "RuntimeError", shape |-> <<>>, items |-> <<>>]
    ELSE [raised |-> None,
          shape |-> <<Len(tensors) * tensors[1].shape[1]>> \o Tail(tensors[1].shape),
          items |-> tensors]

\* torch.stack: a new leading axis; refuses an empty list and unequal shapes
Stack(tensors) ==
    IF Len(tensors) = 0
       \/ \E i \in DOMAIN tensors : tensors[i].shape # tensors[1].shape
    THEN [raised |-> "RuntimeError", shape |-> <<>>, items |-> <<>>]
    ELSE [raised |-> None,
          shape |-> <<Len(tensors)>> \o tensors[1].shape,
          items |-> tensors]

(***************************************************************************)
(* The tokenizer, an external collaborator: an invocation is recorded with *)
(* what it received and what it returned.                                  *)
(***************************************************************************)
Tokenizer(text, max_length, return_tensors) ==
    [k \in {"input_ids", "attention_mask"} |->
        [key |-> k, text |-> text, max_length |-> max_length,
         return_tensors |-> return_tensors]]

TokenizerCall(text, max_length, return_tensors) ==
    [method |-> "__call__",
     args |-> <<text>>,
     kwargs |-> [max_length |-> max_length, padding |-> "max_length",
                 truncation |-> "True", return_tensors |-> return_tensors],
     returned |-> Tokenizer(text, max_length, return_tensors)]

TokenizerDecode(method, pos, kwargs) ==
    [method |-> method, args |-> pos, kwargs |-> kwargs,
     returned |-> [decoded_by |-> method, args |-> pos, kwargs |-> kwargs]]

(***************************************************************************)
(* LanguageBindVideoProcessor                                              *)
(***************************************************************************)
MissingInputsNever(text, images) == FALSE

\* __call__, line 115
MissingInputs(text, images) == text = None /\ images.tag = "None"

ReturnValueTextFirst(text, images, encoding, image_features) ==
    IF text # None
    THEN [raised |-> None, value |-> encoding]
    ELSE IF images.tag # "None"
         THEN [raised |-> None, value |-> [k \in {"pixel_values"} |-> image_features]]
         ELSE [raised |-> "UnboundLocalError", value |-> None]

\* __call__, lines 141-147
ReturnValue(text, images, encoding, image_features) ==
    IF text # None /\ images.tag # "None"
    THEN [raised |-> None,
          value |-> [k \in DOMAIN encoding \cup {"pixel_values"} |->
                        IF k = "pixel_values" THEN image_features ELSE encoding[k]]]
    ELSE IF text # None
         THEN [raised |-> None, value |-> encoding]
         ELSE IF images.tag # "None"
              THEN [raised |-> None, value |-> [k \in {"pixel_values"} |-> image_features]]
              ELSE [raised |-> "UnboundLocalError", value |-> None]

\* what a call hands back: the exception or the value, with the tokenizer
\* invocations made and the paths opened on the way
Outcome(r, calls, opens) ==
    [raised |-> r.raised, value |-> r.value, tokenizer_calls |-> calls, opened |-> opens]

Abort(exception, calls, opens) ==
    [raised |-> exception, value |-> None, tokenizer_calls |-> calls, opened |-> opens]

NoImages == [raised |-> None, tensors |-> <<>>, opened |-> <<>>]

\* __call__, lines 130-138: the list comprehension, one item at a time in list
\* order, stopping at the first item that raises
RECURSIVE LoadEach(_, _, _, _)
RECURSIVE LoadNext(_, _, _, _, _)
LoadEach(p, items, coins, acc) ==
    IF items = <<>> THEN acc
    ELSE LoadNext(p, items, coins, acc,
                  Loaded[Head(items), p.config.video_decode_backend,
                         p.config.num_frames, Head(coins)])

LoadNext(p, items, coins, acc, r) ==
    IF r.raised # None
    THEN [raised |-> r.raised, tensors |-> acc.tensors, opened |-> acc.opened \o r.opened]
    ELSE LoadEach(p, Tail(items), Tail(coins),
                  [raised |-> None, tensors |-> Append(acc.tensors, r.value),
                   opened |-> acc.opened \o r.opened])

\* __call__, lines 141-147, once image_features is bound
Finish(text, images, calls, opens, image_features) ==
    Outcome(ReturnValue(text, images,
                        IF calls = <<>> THEN <<>> ELSE calls[1].returned,
                        image_features),
            calls, opens)

\* __call__, line 139
Stacked(text, images, calls, opens, image_features) ==
    IF image_features.raised # None
    THEN Abort(image_features.raised, calls, opens)
    ELSE Finish(text, images, calls, opens, image_features)

\* __call__, lines 128-147
WithImages(text, images, calls, loaded) ==
    IF loaded.raised # None THEN Abort(loaded.raised, calls, loaded.opened)
    ELSE IF images.tag = "None" THEN Finish(text, images, calls, <<>>, None)
    ELSE Stacked(text, images, calls, loaded.opened, Stack(loaded.tensors))

\* __call__ of processor p
Call(p, text, images, context_length, return_tensors, coins) ==
    IF MissingInputs(text, images) THEN Abort("ValueError", <<>>, <<>>)
    ELSE WithImages(text, images,
                    IF text # None
                    THEN <<TokenizerCall(text, context_length, return_tensors)>>
                    ELSE <<>>,
                    IF images.tag = "None" THEN NoImages
                    ELSE LoadEach(p, make_list_of_images(images), coins, NoImages))

\* batch_decode / decode: def f(self, skip_special_tokens=True, *args, **kwargs).
\* Python binds the first positional argument to skip_special_tokens and the
\* rest to args; a keyword of the same name is then a TypeError.
Forward(p, method, pos, kw) ==
    LET named == "skip_special_tokens" \in DOMAIN kw
        skip_special_tokens == IF pos # <<>> THEN pos[1]
                               ELSE IF named THEN kw["skip_special_tokens"]
                               ELSE "True"
        rest == IF pos # <<>> THEN Tail(pos) ELSE <<>>
        kwargs == [k \in DOMAIN kw \cup {"skip_special_tokens"} |->
                      IF k = "skip_special_tokens" THEN skip_special_tokens ELSE kw[k]]
        call == TokenizerDecode(method, rest, kwargs)
    IN  IF pos # <<>> /\ named
        THEN [raised |-> "TypeError", value |-> None, tokenizer_calls |-> <<>>]
        ELSE [raised |-> None, value |-> call.returned, tokenizer_calls |-> <<call>>]

(***************************************************************************)
(* Spec: the operations a caller can make, in any order.                   *)
(***************************************************************************)
Init ==
    /\ processor = <<>>
    /\ args = [op |-> "start"]
    /\ result = [raised |-> None, value |-> None]
    /\ opened = <<>>
    /\ tokenizer_calls = <<>>
    /\ seen = [v \in VideoFiles |-> {}]

\* transform = get_video_transform(backend), called on its own
GetVideoTransform ==
    \E backend \in Backends :
        LET r == get_video_transform(backend)
        IN  /\ args' = [op |-> "get_video_transform", video_decode_backend |-> backend]
            /\ result' = [raised |-> r.raised, value |-> r.value]
            /\ opened' = <<>>
            /\ tokenizer_calls' = <<>>
            /\ UNCHANGED <<processor, seen>>

\* load_and_transform_video(path, transform, backend, num_frames=n), called on
\* its own with the decord pipeline
LoadAndTransformVideo ==
    \E video_path \in VideoFiles, backend \in Backends, n \in ConfigFrames, coin \in BOOLEAN :
        \E r \in {Loaded[video_path, backend, n, coin]} :
            /\ args' = [op |-> "load_and_transform_video", video_path |-> video_path,
                        video_decode_backend |-> backend, num_frames |-> n]
            /\ result' = [raised |-> r.raised, value |-> r.value]
            /\ opened' = r.opened
            /\ tokenizer_calls' = <<>>
            /\ UNCHANGED <<processor, seen>>

\* processor = LanguageBindVideoProcessor(config, tokenizer): the name is bound
\* only when __init__ returns.  A tokenizer is always supplied.
Construct ==
    \E backend \in Backends, n \in ConfigFrames, tokenizer \in {"tokenizer"} :
        LET t == get_video_transform(backend)
            p == [config |-> [video_decode_backend |-> backend, num_frames |-> n],
                  transform |-> t.value,
                  tokenizer |-> tokenizer]
        IN  /\ args' = [op |-> "__init__", video_decode_backend |-> backend,
                        num_frames |-> n, tokenizer |-> tokenizer]
            /\ result' = [raised |-> t.raised, value |-> None]
            /\ opened' = <<>>
            /\ tokenizer_calls' = <<>>
            /\ IF t.raised = None
               THEN processor' = <<p>> /\ seen' = [v \in VideoFiles |-> {}]
               ELSE UNCHANGED <<processor, seen>>

\* the pixel outputs a returning call produced, recorded per video
Record(r, images) ==
    IF r.raised # None \/ images.tag = "None" THEN seen
    ELSE IF "pixel_values" \notin DOMAIN r.value THEN seen
    ELSE [v \in VideoFiles |->
            seen[v] \cup {r.value["pixel_values"].items[i] :
                            i \in {j \in DOMAIN make_list_of_images(images) :
                                     make_list_of_images(images)[j] = v}}]

\* the outcomes of random.random() < p, one per item: only an item that decodes
\* reaches the flip
Coins(images) ==
    {c \in [DOMAIN images.items -> BOOLEAN] :
        \A i \in DOMAIN images.items : ~Decodable(images.items[i]) => ~c[i]}

Invoke(op, text, images, return_tensors, coins) ==
    \E r \in {Call(processor[1], text, images, DefaultContextLength, return_tensors, coins)} :
        /\ args' = [op |-> op, text |-> text, images |-> images,
                    return_tensors |-> return_tensors]
        /\ result' = [raised |-> r.raised, value |-> r.value]
        /\ opened' = r.opened
        /\ tokenizer_calls' = r.tokenizer_calls
        /\ seen' = Record(r, images)
        /\ UNCHANGED processor

\* processor(images=..., text=..., return_tensors=...)
CallProcessor ==
    /\ processor # <<>>
    /\ \E text \in Texts, images \in ImagesArgs, return_tensors \in ReturnTensors :
          \E coins \in Coins(images) :
              Invoke("__call__", text, images, return_tensors, coins)

\* processor.preprocess(images, return_tensors)
Preprocess ==
    /\ processor # <<>>
    /\ \E images \in ImagesArgs, return_tensors \in ReturnTensors :
          \E coins \in Coins(images) :
              Invoke("preprocess", None, images, return_tensors, coins)

KwArgs == UNION {[names -> KwValues] : names \in SUBSET KwNames}

PosArgs == UNION {[1..n -> PosValues] : n \in 0..MaxArgs}

Decoding(method) ==
    /\ processor # <<>>
    /\ \E pos \in PosArgs, kw \in KwArgs :
          \E r \in {Forward(processor[1], method, pos, kw)} :
              /\ args' = [op |-> method, pos |-> pos, kw |-> kw]
              /\ result' = [raised |-> r.raised, value |-> r.value]
              /\ opened' = <<>>
              /\ tokenizer_calls' = r.tokenizer_calls
              /\ UNCHANGED <<processor, seen>>

\* processor.batch_decode(*pos, **kw)
BatchDecode == Decoding("batch_decode")

\* processor.decode(*pos, **kw)
Decode == Decoding("decode")

Next ==
    \/ GetVideoTransform
    \/ LoadAndTransformVideo
    \/ Construct
    \/ CallProcessor
    \/ Preprocess
    \/ BatchDecode
    \/ Decode

Spec == Init /\ [][Next]_vars

(***************************************************************************)
(* Properties of the frame index list (SpecFrames).                        *)
(***************************************************************************)
Sampled == args.op = "linspace" /\ result.status = "ok"

\* C3: for every duration D >= 1 and frame count N >= 1 the frame index list
\* has exactly N entries, each an integer in [0, D-1], in non-decreasing order.
C3_CountRangeOrder ==
    Sampled =>
        LET ids == result.value
        IN  /\ DOMAIN ids = 1..args.num_frames
            /\ Len(ids) = args.num_frames
            /\ \A i \in DOMAIN ids : ids[i] \in 0..(args.duration - 1)
            /\ \A i \in 1..(args.num_frames - 1) : ids[i] <= ids[i + 1]

\* C3 witness: more frames requested than the video has, and an index repeats.
C3_Witness ==
    /\ Sampled
    /\ args.num_frames > args.duration
    /\ args.duration > 1
    /\ \E i \in 1..(args.num_frames - 1) : result.value[i] = result.value[i + 1]

\* C4 as stated: for 1 <= N <= D the indices are strictly increasing, the first
\* is 0 and the last is D-1.
C4_Original ==
    (Sampled /\ args.num_frames <= args.duration) =>
        LET ids == result.value
        IN  /\ \A i \in 1..(args.num_frames - 1) : ids[i] < ids[i + 1]
            /\ ids[1] = 0
            /\ ids[args.num_frames] = args.duration - 1

\* C4 amended: for 1 <= N <= D the indices are N pairwise distinct, strictly
\* increasing integers starting at 0; the last is D-1 when N >= 2, and for
\* N = 1 the single index is 0.
C4_DistinctIncreasing ==
    (Sampled /\ args.num_frames <= args.duration) =>
        LET ids == result.value
        IN  /\ Len(ids) = args.num_frames
            /\ \A i \in 1..(args.num_frames - 1) : ids[i] < ids[i + 1]
            /\ \A i, j \in DOMAIN ids : i # j => ids[i] # ids[j]
            /\ ids[1] = 0
            /\ args.num_frames >= 2 => ids[args.num_frames] = args.duration - 1
            /\ args.num_frames = 1 => ids = <<0>>

\* C4 witness: at least two frames sampled from a longer video.
C4_Witness ==
    /\ Sampled
    /\ args.num_frames >= 2
    /\ args.num_frames < args.duration
    /\ result.value[args.num_frames] = args.duration - 1

\* C5 as stated: for N >= 2 the k-th index is k*(D-1)/(N-1) rounded to the
\* nearest integer (either neighbour accepted at a tie), i.e. within 1/2 of it.
C5_Original ==
    (Sampled /\ args.num_frames >= 2) =>
        \A k \in 0..(args.num_frames - 1) :
            LET m == args.num_frames - 1
                x == k * (args.duration - 1)
                v == result.value[k + 1]
            IN  /\ 2 * m * v - 2 * x <= m
                /\ 2 * x - 2 * m * v <= m

\* C5 amended: for N >= 2 the k-th index is k*(D-1)/(N-1) rounded down.  It is
\* exactly floor(k*(D-1)/(N-1)) when that quotient is not an integer, when
\* k = 0 or k = N-1, or when (D-1)/(N-1) in lowest terms has a power of two as
\* denominator; otherwise it is that integer or the integer below it.
C5_Truncated ==
    (Sampled /\ args.num_frames >= 2) =>
        \A k \in 0..(args.num_frames - 1) :
            LET m == args.num_frames - 1
                x == k * (args.duration - 1)
                v == result.value[k + 1]
                d == m \div Gcd(args.duration - 1, m)
            IN  /\ v \in {x \div m - 1, x \div m}
                /\ (x % m # 0 \/ k = 0 \/ k = m \/ d = Pow2(CeilLog2(d))) => v = x \div m

\* C5 witness: a position whose fraction exceeds 1/2 and whose index is the
\* integer below it.
C5_Witness ==
    /\ Sampled
    /\ args.num_frames >= 2
    /\ \E k \in 0..(args.num_frames - 1) :
          LET m == args.num_frames - 1
              x == k * (args.duration - 1)
          IN  2 * (x % m) > m /\ result.value[k + 1] = x \div m

(***************************************************************************)
(* Properties of the transform pipeline (SpecScale).                       *)
(***************************************************************************)
Staged(n) == args.op = "transform" /\ result.stage = n

\* C6 as stated: after ShortSideScale the short side is 224 and the long side
\* is floor(long / short * 224); after the centre crop the clip is 224 x 224.
C6_Original ==
    /\ Staged(3) =>
          LET h == args.height
              w == args.width
              shape == result.value.shape
          IN  /\ result.value.raised = None
              /\ IF w < h
                 THEN shape[4] = TargetSize /\ shape[3] = (h * TargetSize) \div w
                 ELSE shape[3] = TargetSize /\ shape[4] = (w * TargetSize) \div h
    /\ (Staged(4) \/ Staged(5)) =>
          /\ result.value.raised = None
          /\ result.value.shape[3] = TargetSize
          /\ result.value.shape[4] = TargetSize

\* C6 amended: after ShortSideScale the input's short side is exactly 224 and
\* the long side is at least 224: it is floor(long * 224 / short), or one less
\* than that for some inputs where long * 224 / short is an integer and
\* long / short is not; the centre crop then yields exactly 224 x 224, and no
\* stage raises.
C6_Output224 ==
    /\ Staged(3) =>
          LET h == args.height
              w == args.width
              shape == result.value.shape
              long == IF w < h THEN h ELSE w
              short == IF w < h THEN w ELSE h
              newLong == IF w < h THEN shape[3] ELSE shape[4]
              newShort == IF w < h THEN shape[4] ELSE shape[3]
              exact == (long * TargetSize) \div short
          IN  /\ result.value.raised = None
              /\ newShort = TargetSize
              /\ newLong >= TargetSize
              /\ newLong \in {exact - 1, exact}
              /\ ((long * TargetSize) % short # 0 \/ long % short = 0) => newLong = exact
              /\ shape[1] = 3 /\ shape[2] = 1
    /\ (Staged(4) \/ Staged(5)) =>
          /\ result.value.raised = None
          /\ result.value.shape = <<3, 1, TargetSize, TargetSize>>

\* C6 witness: a portrait clip has gone through the whole pipeline.
C6_Witness ==
    /\ Staged(5)
    /\ args.width < args.height
    /\ result.value.shape[3] = TargetSize
    /\ result.value.shape[4] = TargetSize

(***************************************************************************)
(* Properties of the processor (Spec).                                     *)
(***************************************************************************)
Called == args.op \in {"__call__", "preprocess"}

Returned == Called /\ result.raised = None

HasText == args.text # None

HasImages == args.images.tag # "None"

\* C1: a returning __call__ yields, with text only, the tokenizer's encoding
\* without a pixel_values key; with images only, a mapping whose only key is
\* pixel_values; with both, the tokenizer's encoding with every key kept plus
\* pixel_values holding the pixel batch.
C1_KeySets ==
    Returned =>
        /\ (HasText /\ ~HasImages) =>
              /\ Len(tokenizer_calls) = 1
              /\ result.value = tokenizer_calls[1].returned
              /\ "pixel_values" \notin DOMAIN result.value
        /\ (~HasText /\ HasImages) =>
              /\ DOMAIN result.value = {"pixel_values"}
              /\ result.value["pixel_values"].shape[1] = Len(make_list_of_images(args.images))
              /\ tokenizer_calls = <<>>
        /\ (HasText /\ HasImages) =>
              /\ Len(tokenizer_calls) = 1
              /\ DOMAIN result.value =
                    DOMAIN tokenizer_calls[1].returned \cup {"pixel_values"}
              /\ \A k \in DOMAIN tokenizer_calls[1].returned :
                    result.value[k] = tokenizer_calls[1].returned[k]
              /\ result.value["pixel_values"].shape[1] = Len(make_list_of_images(args.images))

\* C1 witness: a call with text and images has returned the merged mapping.
C1_Witness ==
    /\ Returned
    /\ HasText
    /\ HasImages
    /\ DOMAIN result.value = {"input_ids", "attention_mask", "pixel_values"}

\* C2: __call__ with neither text nor images, and preprocess with images=None,
\* raise ValueError before the tokenizer is invoked or a video is opened.
C2_NeitherRaises ==
    (Called /\ ~HasText /\ ~HasImages) =>
        /\ result.raised = "ValueError"
        /\ tokenizer_calls = <<>>
        /\ opened = <<>>

\* C2 witness: preprocess(images=None) has raised the ValueError.
C2_Witness ==
    /\ args.op = "preprocess"
    /\ ~HasImages
    /\ result.raised = "ValueError"

\* C7: batch_decode and decode hand the tokenizer's method of the same name
\* the caller's positional arguments in order and the caller's keyword
\* arguments, with skip_special_tokens=True added when the caller gave none,
\* and return its result.
C7_Original ==
    (args.op \in {"batch_decode", "decode"}) =>
        /\ result.raised = None
        /\ Len(tokenizer_calls) = 1
        /\ tokenizer_calls[1].method = args.op
        /\ tokenizer_calls[1].args = args.pos
        /\ tokenizer_calls[1].kwargs =
              [k \in DOMAIN args.kw \cup {"skip_special_tokens"} |->
                  IF k \in DOMAIN args.kw THEN args.kw[k] ELSE "True"]
        /\ result.value = tokenizer_calls[1].returned

\* C8: with backend "decord" get_video_transform and the construction of a
\* processor succeed; with any other backend get_video_transform, the
\* construction and load_and_transform_video raise NameError with no video
\* opened, and no processor with such a backend ever exists.
C8_BackendCheck ==
    /\ processor # <<>> =>
          /\ processor[1].config.video_decode_backend = "decord"
          /\ processor[1].transform = Pipeline
    /\ args.op = "get_video_transform" =>
          IF args.video_decode_backend = "decord"
          THEN result.raised = None /\ result.value = Pipeline
          ELSE result.raised = "NameError" /\ opened = <<>>
    /\ args.op = "__init__" =>
          IF args.video_decode_backend = "decord"
          THEN /\ result.raised = None
               /\ processor # <<>>
               /\ processor[1].config.num_frames = args.num_frames
          ELSE /\ result.raised = "NameError"
               /\ opened = <<>>
               /\ tokenizer_calls = <<>>
    /\ (args.op = "load_and_transform_video" /\ args.video_decode_backend # "decord") =>
          /\ result.raised = "NameError"
          /\ opened = <<>>

\* C8 witness: a construction with an unsupported backend has failed and the
\* processor built earlier is the only one there is.
C8_Witness ==
    /\ args.op = "__init__"
    /\ args.video_decode_backend # "decord"
    /\ result.raised = "NameError"
    /\ processor # <<>>

\* C9 as stated: for a fixed processor, every call on the same video yields
\* the same pixel output.
C9_Original ==
    \A v \in DOMAIN seen : Cardinality(seen[v]) <= 1

\* C9 amended: for a fixed processor, any two pixel outputs for the same video
\* are equal up to a horizontal flip, whatever calls were made in between: they
\* hold the same frames in the same order with the same shape and dtype, and
\* differ at most in their horizontal orientation.
C9_EqualUpToFlip ==
    \A v \in DOMAIN seen :
        \A x, y \in seen[v] :
            /\ x.video = v
            /\ [x EXCEPT !.mirrored = FALSE] = [y EXCEPT !.mirrored = FALSE]

\* C9 witness: one video has been seen both flipped and not flipped.
C9_Witness ==
    \E v \in DOMAIN seen :
        \E x, y \in seen[v] : x.mirrored /\ ~y.mirrored

AllDecode == \A i \in DOMAIN args.images.items : Decodable(args.images.items[i])

\* the pixel batch holds one entry per item, in input order, each of shape
\* (3, num_frames, 224, 224), and the videos were opened one at a time in order
BatchInOrder ==
    LET items == make_list_of_images(args.images)
        batch == result.value["pixel_values"]
        n == processor[1].config.num_frames
    IN  /\ result.raised = None
        /\ batch.shape = <<Len(items), 3, n, TargetSize, TargetSize>>
        /\ Len(batch.items) = Len(items)
        /\ \A j \in DOMAIN items :
              /\ batch.items[j].video = items[j]
              /\ batch.items[j].shape = <<3, n, TargetSize, TargetSize>>
              /\ batch.items[j].frames = FrameIdList(Duration(items[j]), n)
        /\ opened = items

\* C10 as stated: for a single item or a list of any length whose items all
\* decode, the call returns the batch of the per-item results in input order.
C10_Original ==
    (Called /\ HasImages /\ AllDecode) => BatchInOrder

\* C10 amended: for a single item or a non-empty list whose items all decode,
\* the call returns the batch of the per-item results in input order, one
\* entry per item, each of shape (3, num_frames, 224, 224); for an empty list
\* the stacking raises RuntimeError.
C10_NonEmptyBatch ==
    (Called /\ HasImages /\ AllDecode) =>
        IF args.images.tag = "list" /\ args.images.items = <<>>
        THEN result.raised = "RuntimeError" /\ opened = <<>>
        ELSE BatchInOrder

\* C10 witness: a list of two different videos has been stacked.
C10_Witness ==
    /\ Returned
    /\ args.images.tag = "list"
    /\ Len(args.images.items) = 2
    /\ args.images.items[1] # args.images.items[2]
    /\ result.value["pixel_values"].shape[1] = 2

====
